---- MODULE Spec2Model ----
(***************************************************************************)
(* Model of galafis/Modern-ETL-Pipeline (src/etl_pipeline.py).             *)
(*                                                                         *)
(* Two specifications share this module:                                   *)
(*   Spec   the orchestrator ETLPipeline.run_pipeline with the metrics     *)
(*          recorder ETLPipeline.log_metrics, the metrics file and the     *)
(*          scheduling loop ETLPipeline.schedule_pipeline;                 *)
(*   SpecT  the transform stage DataTransformer.clean_data and             *)
(*          DataTransformer.transform_data applied to DataFrame objects.   *)
(*                                                                         *)
(* Numbers: every numeric cell holds twice the value it stands for, so     *)
(* that the median of two inputs and the pandas linear-interpolation       *)
(* quantiles stay integral (quantiles are carried multiplied by 4, the     *)
(* IQR bounds multiplied by 8).                                            *)
(***************************************************************************)
EXTENDS Integers, Sequences, FiniteSets, TLC

VARIABLES
    \* ---- run_pipeline / log_metrics --------------------------------
    pc,                \* position inside run_pipeline
    start_time,        \* local start_time of the current invocation
    extracted_data,    \* local list extracted_data
    combined_data,     \* local combined_data
    cleaned_data,      \* local cleaned_data
    transformed_data,  \* local transformed_data
    exc,               \* text of the exception in flight, "" when none
    outcome,           \* how the last invocation ended: "none", "returned", "raised"
    metrics_file,      \* data/output/pipeline_metrics.json
    targets,           \* what each target holds: warehouse.db, processed_data.csv, .json
    clock,             \* datetime.now()
    runs,              \* number of invocations started
    calls,             \* history: stage and sink calls made by the current invocation
    completed,         \* history: the calls of the current invocation that returned normally
    len_at_start,      \* history: records held by the log when the invocation started
    yielded,           \* history: what each source returned to the current invocation
    recorded,          \* history: every metrics dict passed to log_metrics, in call order
    lost,              \* history: how many of them preceded the last loss of the file
    caller,            \* who calls run_pipeline: "direct", "schedule_pipeline", "ended"
    run_by,            \* history: the caller of the current or last invocation
    \* ---- transform stage on DataFrame objects -----------------------
    heap,              \* DataFrame objects by identity
    call,              \* the last completed call: operation, argument, snapshot, result
    passes             \* the outlier loop's per-column bounds of the last clean_data

vars == <<pc, start_time, extracted_data, combined_data, cleaned_data,
          transformed_data, exc, outcome, metrics_file, targets, clock, runs,
          calls, completed, len_at_start, yielded, recorded, lost,
          caller, run_by, heap, call, passes>>

pipeVars == <<pc, start_time, extracted_data, combined_data, cleaned_data,
              transformed_data, exc, outcome, metrics_file, targets, runs,
              calls, completed, len_at_start, yielded, recorded, lost,
              caller, run_by>>

transVars == <<heap, call, passes>>

callVars == <<caller, run_by>>

-----------------------------------------------------------------------------
(* Bounds *)

MaxRows == 5        \* rows of a table built for the outlier loop
MaxMissingRows == 3 \* rows of a table built for imputation
MaxPriceRows == 1   \* rows of a table handed directly to transform_data
MaxRuns == 2        \* invocations of run_pipeline

-----------------------------------------------------------------------------
(* Cells, rows, DataFrames *)

Fix(x) == x + x

Num(x) == [na |-> FALSE, v |-> Fix(x)]
NaN == [na |-> TRUE, v |-> 0]
Str(s) == [na |-> FALSE, v |-> s]
None == [na |-> TRUE, v |-> <<>>]
Cat(l) == [na |-> FALSE, v |-> l]
NoCat == [na |-> TRUE, v |-> ""]

DataFrame(columns, dtypes, rows) ==
    [columns |-> columns, dtypes |-> dtypes, rows |-> rows]

Column(df, c) == [i \in 1..Len(df.rows) |-> df.rows[i][c]]

ColumnsOfType(df, ty) == SelectSeq(df.columns, LAMBDA c : df.dtypes[c] = ty)

\* df.select_dtypes(include=[np.number]).columns
numeric_columns(df) == ColumnsOfType(df, "number")

\* df.select_dtypes(include=['object']).columns
object_columns(df) == ColumnsOfType(df, "object")

Range(s) == {s[i] : i \in 1..Len(s)}

isna_sum(df, c) == Cardinality({i \in 1..Len(df.rows) : df.rows[i][c].na})

\* result.duplicated().sum(): rows equal to an earlier row
duplicated_sum(df) ==
    Cardinality({i \in 1..Len(df.rows) : \E j \in 1..(i-1) : df.rows[j] = df.rows[i]})

-----------------------------------------------------------------------------
(* DataTransformer.clean_data *)

\* the rows of s whose index is in keep, in their original order
RowsAt(s, keep) ==
    LET F[i \in 0..Len(s)] ==
            IF i = 0 THEN <<>>
            ELSE IF i \in keep THEN Append(F[i-1], s[i]) ELSE F[i-1]
    IN  F[Len(s)]

\* df.drop_duplicates(): keep='first', missing markers compare equal
drop_duplicates(df) ==
    [df EXCEPT !.rows =
        RowsAt(df.rows, {i \in 1..Len(df.rows) :
                            \A j \in 1..(i-1) : df.rows[j] # df.rows[i]})]

\* the non-missing values of a column, ascending
SortedValues(cells) ==
    LET present == RowsAt(cells, {i \in 1..Len(cells) : ~cells[i].na})
    IN  SortSeq([i \in 1..Len(present) |-> present[i].v], LAMBDA a, b : a < b)

\* Series.median(): skips missing values, NaN when nothing is left
median(cells) ==
    LET s == SortedValues(cells)
        n == Len(s)
    IN  IF n = 0 THEN NaN
        ELSE IF n % 2 = 1 THEN [na |-> FALSE, v |-> s[(n + 1) \div 2]]
        ELSE [na |-> FALSE, v |-> (s[n \div 2] + s[n \div 2 + 1]) \div 2]

\* a fillna that leaves every missing marker in place
fillna_noop(cell, value) == cell

\* Series.fillna(value): a missing value fills nothing
fillna(cell, value) == IF cell.na /\ ~value.na THEN value ELSE cell

\* df[numeric_columns] = df[numeric_columns].fillna(df[numeric_columns].median())
fillna_numeric(df) ==
    LET num == Range(numeric_columns(df))
        med == [c \in num |-> median(Column(df, c))]
    IN  [df EXCEPT !.rows =
            [i \in 1..Len(df.rows) |->
                [c \in DOMAIN df.rows[i] |->
                    IF c \in num THEN fillna(df.rows[i][c], med[c])
                    ELSE df.rows[i][c]]]]

\* df[categorical_columns] = df[categorical_columns].fillna('Unknown')
fillna_categorical(df) ==
    LET obj == Range(object_columns(df))
    IN  [df EXCEPT !.rows =
            [i \in 1..Len(df.rows) |->
                [c \in DOMAIN df.rows[i] |->
                    IF c \in obj
                    THEN fillna(df.rows[i][c], Str(<<"U", "n", "k", "n", "o", "w", "n">>))
                    ELSE df.rows[i][c]]]]

\* Series.quantile(k/4) times 4: linear interpolation between the two
\* nearest order statistics, missing values skipped, NaN when none is left
quantile(cells, k) ==
    LET s == SortedValues(cells)
        n == Len(s)
        lo == ((n - 1) * k) \div 4
        fr == ((n - 1) * k) % 4
    IN  IF n = 0 THEN NaN
        ELSE IF fr = 0 THEN [na |-> FALSE, v |-> 4 * s[lo + 1]]
        ELSE [na |-> FALSE, v |-> 4 * s[lo + 1] + fr * (s[lo + 2] - s[lo + 1])]

\* Q1, Q3, IQR, lower_bound, upper_bound of one column; the bounds times 8
Bounds(cells) ==
    LET Q1 == quantile(cells, 1)
        Q3 == quantile(cells, 3)
    IN  IF Q1.na \/ Q3.na
        THEN [lower_bound |-> NaN, upper_bound |-> NaN]
        ELSE [lower_bound |-> [na |-> FALSE, v |-> 2 * Q1.v - 3 * (Q3.v - Q1.v)],
              upper_bound |-> [na |-> FALSE, v |-> 2 * Q3.v + 3 * (Q3.v - Q1.v)]]

\* (df[col] >= lower_bound) & (df[col] <= upper_bound): a comparison with a
\* missing value is False
InBounds(cell, b) ==
    /\ ~cell.na
    /\ ~b.lower_bound.na
    /\ ~b.upper_bound.na
    /\ 8 * cell.v >= b.lower_bound.v
    /\ 8 * cell.v <= b.upper_bound.v

\* df = df[(df[col] >= lower_bound) & (df[col] <= upper_bound)]
FilterBounds(df, col, b) ==
    [df EXCEPT !.rows =
        RowsAt(df.rows, {i \in 1..Len(df.rows) : InBounds(df.rows[i][col], b)})]

\* quartiles taken over the table as it was before the first pass
PassInput_unreduced(df, original) == original

\* the table the pass of column col computes its quartiles over
PassInput(df, original) == df

\* for col in numeric_columns: ... ; keeps each pass's column and bounds
RECURSIVE OutlierLoop(_, _, _, _, _)
OutlierLoop(df, original, cols, i, done) ==
    IF i > Len(cols) THEN [df |-> df, passes |-> done]
    ELSE LET col == cols[i]
             b == Bounds(Column(PassInput(df, original), col))
         IN  OutlierLoop(FilterBounds(df, col, b), original, cols, i + 1,
                         Append(done, [col |-> col,
                                       lower_bound |-> b.lower_bound,
                                       upper_bound |-> b.upper_bound]))

\* the table after "Handle missing values"
Imputed(df) == fillna_categorical(fillna_numeric(drop_duplicates(df)))

\* clean_data: the returned DataFrame and the bounds its loop computed
clean_data_run(df) ==
    LET filled == Imputed(df)
    IN  OutlierLoop(filled, filled, numeric_columns(filled), 1, <<>>)

clean_data(df) == clean_data_run(df).df

-----------------------------------------------------------------------------
(* DataTransformer.transform_data *)

\* bins=[0, 50, 200, 500, float('inf')]: the finite edges; the last bin is open above
bins == <<0, 50, 200, 500>>

labels == <<"Low", "Medium", "High", "Premium">>

\* the bin i holds x: pd.cut's default right=True, include_lowest=False
InBin(x, i) ==
    /\ x > Fix(bins[i])
    /\ (i = Len(bins) \/ x <= Fix(bins[i + 1]))

\* pd.cut(df['price'], bins, labels) on one value
cut(cell) ==
    IF cell.na THEN NoCat
    ELSE LET hit == {i \in 1..Len(bins) : InBin(cell.v, i)}
         IN  IF hit = {} THEN NoCat ELSE Cat(labels[CHOOSE i \in hit : TRUE])

lowers == <<"a", "b", "k", "n", "o", "u", "w">>
uppers == <<"A", "B", "K", "N", "O", "U", "W">>

IsCased(ch) == ch \in Range(lowers) \cup Range(uppers)

IndexOf(ch) == CHOOSE i \in 1..Len(lowers) : lowers[i] = ch \/ uppers[i] = ch

\* str.strip(): drop the leading and trailing blanks
strip(s) ==
    LET solid == {i \in 1..Len(s) : s[i] # " "}
    IN  IF solid = {} THEN <<>>
        ELSE LET first == CHOOSE i \in solid : \A j \in solid : i <= j
                 last == CHOOSE i \in solid : \A j \in solid : i >= j
             IN  SubSeq(s, first, last)

\* str.title(): a cased character is upper-cased after an uncased one (or at
\* the start) and lower-cased after a cased one
title(s) ==
    [i \in 1..Len(s) |->
        IF ~IsCased(s[i]) THEN s[i]
        ELSE IF i = 1 \/ ~IsCased(s[i - 1]) THEN uppers[IndexOf(s[i])]
        ELSE lowers[IndexOf(s[i])]]

\* df[col].str.strip().str.title(): a missing value stays missing
strip_title(cell) == IF cell.na THEN cell ELSE Str(title(strip(cell.v)))

\* df[c] = values: a new column is appended, an existing one is replaced in place
SetColumn(df, c, dtype, values) ==
    [columns |-> IF c \in Range(df.columns) THEN df.columns ELSE Append(df.columns, c),
     dtypes |-> [d \in DOMAIN df.dtypes \cup {c} |-> IF d = c THEN dtype ELSE df.dtypes[d]],
     rows |-> [i \in 1..Len(df.rows) |->
                 [d \in DOMAIN df.rows[i] \cup {c} |->
                     IF d = c THEN values[i] ELSE df.rows[i][d]]]]

\* if 'price' in df.columns: df['price_category'] = pd.cut(...)
add_price_category(df) ==
    IF "price" \in Range(df.columns)
    THEN SetColumn(df, "price_category", "category",
                   [i \in 1..Len(df.rows) |-> cut(df.rows[i]["price"])])
    ELSE df

\* df['processed_at'] = datetime.now()
add_processed_at(df, now) ==
    SetColumn(df, "processed_at", "datetime",
              [i \in 1..Len(df.rows) |-> [na |-> FALSE, v |-> now]])

\* for col in text_columns: if col not in ['processed_at']: df[col] = ...
normalize_text(df) ==
    LET obj == Range(object_columns(df)) \ {"processed_at"}
    IN  [df EXCEPT !.rows =
            [i \in 1..Len(df.rows) |->
                [c \in DOMAIN df.rows[i] |->
                    IF c \in obj THEN strip_title(df.rows[i][c]) ELSE df.rows[i][c]]]]

\* the DataFrame as transform_data leaves it
transform_data(df, now) == normalize_text(add_processed_at(add_price_category(df), now))

-----------------------------------------------------------------------------
(* Input tables of the transform stage *)

Row3(p, q, n) == ("price" :> p) @@ ("stock_quantity" :> q) @@ ("name" :> n)
Row2(p, n) == ("price" :> p) @@ ("name" :> n)
RowQ(q, n) == ("stock_quantity" :> q) @@ ("name" :> n)

Dtypes3 == ("price" :> "number") @@ ("stock_quantity" :> "number") @@ ("name" :> "object")
Dtypes2 == ("price" :> "number") @@ ("name" :> "object")
DtypesQ == ("stock_quantity" :> "number") @@ ("name" :> "object")

NameA == Str(<<" ", "a", " ">>)
NameB == Str(<<"b">>)

\* rows for the outlier loop: five distinct rows, stock_quantity constant
\* but for one row, price with an outlier among the first four rows only
OutlierPool ==
    { Row3(Num(-1), Num(0), NameB),
      Row3(Num(0), Num(0), NameB),
      Row3(Num(50), Num(0), NameB),
      Row3(Num(500), Num(0), NameB),
      Row3(Num(500), Num(100), NameB) }

\* rows for imputation: missing markers in every column, columns that can be
\* missing throughout, rows that differ only in a missing marker
MissingPool ==
    { Row3(NaN, Num(0), NameB),
      Row3(Num(0), Num(0), NameB),
      Row3(Num(50), Num(0), NameB),
      Row3(Num(0), NaN, None),
      Row3(NaN, NaN, NameA),
      Row3(Num(0), Num(0), None) }

\* rows for transform_data: every bin edge, a value inside every bin, a
\* negative and a missing price
PricePool ==
    { Row2(p, n) : p \in {Num(-1), Num(0), Num(10), Num(50), Num(100), Num(200),
                          Num(300), Num(500), Num(800), NaN},
                   n \in {NameA, NameB, None} }

NoPricePool == { RowQ(Num(0), NameA), RowQ(NaN, None) }

SeqsUpTo(S, n) == UNION {[1..k -> S] : k \in 0..n}

ColumnOrders == {<<"price", "stock_quantity", "name">>,
                 <<"stock_quantity", "price", "name">>}

OutlierTables ==
    { DataFrame(cols, Dtypes3, rows) :
        cols \in ColumnOrders, rows \in SeqsUpTo(OutlierPool, MaxRows) }

MissingTables ==
    { DataFrame(cols, Dtypes3, rows) :
        cols \in ColumnOrders, rows \in SeqsUpTo(MissingPool, MaxMissingRows) }

PriceTables ==
    { DataFrame(<<"price", "name">>, Dtypes2, rows) : rows \in SeqsUpTo(PricePool, MaxPriceRows) }

NoPriceTables ==
    { DataFrame(<<"stock_quantity", "name">>, DtypesQ, rows) :
        rows \in SeqsUpTo(NoPricePool, MaxPriceRows) }

InputTables == OutlierTables \cup MissingTables \cup PriceTables \cup NoPriceTables

-----------------------------------------------------------------------------
(* The state between invocations of run_pipeline *)

NoFrame == DataFrame(<<>>, <<>>, <<>>)

NoCall == [op |-> "none", arg |-> 0, before |-> NoFrame, ret |-> 0]

Missing == [kind |-> "missing", entries |-> <<>>]

PipeInit ==
    /\ pc = "idle"
    /\ start_time = 0
    /\ extracted_data = <<>>
    /\ combined_data = NoFrame
    /\ cleaned_data = NoFrame
    /\ transformed_data = NoFrame
    /\ exc = ""
    /\ outcome = "none"
    /\ metrics_file = Missing
    /\ targets = [t \in {"database", "csv", "json"} |-> NoFrame]
    /\ clock = 0
    /\ runs = 0
    /\ calls = <<>>
    /\ completed = {}
    /\ len_at_start = 0
    /\ yielded = <<>>
    /\ recorded = <<>>
    /\ lost = 0
    /\ caller = "direct"
    /\ run_by = "direct"

-----------------------------------------------------------------------------
(* The transform stage called on DataFrame objects (SpecT) *)

InitT ==
    /\ PipeInit
    /\ \E df \in InputTables : heap = <<df>>
    /\ call = NoCall
    /\ passes = <<>>

\* the object the caller passes: the table it built
Arg == 1

\* result = transformer.clean_data(df): drop_duplicates returns a new object
\* and every later assignment rebinds or writes to that new object
CallCleanData ==
    /\ call = NoCall
    /\ LET run == clean_data_run(heap[Arg])
       IN  /\ heap' = Append(heap, run.df)
           /\ call' = [op |-> "clean_data", arg |-> Arg, before |-> heap[Arg],
                       ret |-> Len(heap) + 1]
           /\ passes' = run.passes
    /\ UNCHANGED <<pipeVars, clock>>

\* result = transformer.transform_data(df): the columns are assigned on the
\* argument itself and the argument is returned
CallTransformData ==
    /\ call = NoCall
    /\ heap' = [heap EXCEPT ![Arg] = transform_data(heap[Arg], clock)]
    /\ call' = [op |-> "transform_data", arg |-> Arg, before |-> heap[Arg],
                ret |-> Arg]
    /\ clock' = clock + 1
    /\ UNCHANGED <<pipeVars, passes>>

NextT == CallCleanData \/ CallTransformData

SpecT == InitT /\ [][NextT]_vars

-----------------------------------------------------------------------------
(* ETLPipeline.log_metrics and the metrics file *)

Valid(entries) == [kind |-> "valid", entries |-> entries]
Corrupt == [kind |-> "corrupt", entries |-> <<>>]

\* a read that ignores what the file holds
read_existing_empty(file) == <<>>

\* existing_metrics: the parsed array when the file exists and json.load
\* succeeds, [] when the file is absent or the read raises
read_existing(file) == IF file.kind = "valid" THEN file.entries ELSE <<>>

\* a recorder that appends the record twice
log_metrics_twice(file, metrics) ==
    Valid(Append(Append(read_existing(file), metrics), metrics))

\* existing_metrics.append(metrics); json.dump(existing_metrics, f)
log_metrics(file, metrics) == Valid(Append(read_existing(file), metrics))

\* the records the log holds, a missing or corrupt file holding none
LogLen(file) == IF file.kind = "valid" THEN Len(file.entries) ELSE 0

-----------------------------------------------------------------------------
(* ETLPipeline.run_pipeline (Spec) *)

StageOrder ==
    <<"extract_csv", "extract_api", "clean_data", "transform_data",
      "load_to_database", "load_to_csv", "load_to_json">>

Sources == {"extract_csv", "extract_api"}

NoDataError == "No data sources available"

\* str(e) of the exception a stage or a sink raises
ErrorText(stage) ==
    CASE stage = "clean_data" -> "cannot compute quantile"
      [] stage = "transform_data" -> "Can only use .str accessor with string values"
      [] stage = "load_to_database" -> "database is locked"
      [] stage = "load_to_csv" -> "Permission denied: processed_data.csv"
      [] stage = "load_to_json" -> "No space left on device"

\* what data/raw/input.csv may hold
CsvTables ==
    { DataFrame(<<"price", "stock_quantity", "name">>, Dtypes3,
                <<Row3(Num(0), Num(0), NameB), Row3(Num(500), Num(100), NameB)>>),
      DataFrame(<<"price", "stock_quantity", "name">>, Dtypes3,
                <<Row3(NaN, Num(0), NameB), Row3(Num(0), Num(0), NameB),
                  Row3(Num(0), Num(0), NameB)>>) }

\* what the API extraction may return
ApiTables == { DataFrame(<<"price", "name">>, Dtypes2, <<Row2(Num(50), NameA)>>) }

MissingOf(dtype) == IF dtype = "object" THEN None ELSE NaN

\* pd.concat(extracted_data, ignore_index=True): the union of the columns in
\* order of first appearance, the rows in list order, absent cells missing
concat(dfs) ==
    LET cols ==
            LET F[i \in 0..Len(dfs)] ==
                    IF i = 0 THEN <<>>
                    ELSE F[i-1] \o SelectSeq(dfs[i].columns,
                                             LAMBDA c : c \notin Range(F[i-1]))
            IN  F[Len(dfs)]
        owner(c) == CHOOSE i \in 1..Len(dfs) : c \in Range(dfs[i].columns)
        dtypes == [c \in Range(cols) |-> dfs[owner(c)].dtypes[c]]
        pad(r) == [c \in Range(cols) |->
                      IF c \in DOMAIN r THEN r[c] ELSE MissingOf(dtypes[c])]
        rows ==
            LET G[i \in 0..Len(dfs)] ==
                    IF i = 0 THEN <<>>
                    ELSE G[i-1] \o [k \in 1..Len(dfs[i].rows) |-> pad(dfs[i].rows[k])]
            IN  G[Len(dfs)]
    IN  DataFrame(cols, dtypes, rows)

\* a test that lets the run go on only when every source delivered
HasData_all(extracted) == Len(extracted) = Cardinality(Sources)

\* the negation of "if not extracted_data"
HasData(extracted) == Len(extracted) > 0

\* control that goes on to the next statement whatever happened
AfterStage_continue(raised, next) == next

\* where control goes after a statement of the try block: to the except
\* clause when it raised, to the next statement otherwise
AfterStage(raised, next) == IF raised THEN "except" ELSE next

\* a scheduling loop that survives the exception of a job
AfterRaise_caught(who) == who

\* where the exception that run_pipeline re-raises leaves its caller: neither
\* schedule.run_pending() nor the while loop of schedule_pipeline catches it,
\* so the loop is left for good; a direct caller gets the exception itself
AfterRaise(who) == IF who = "schedule_pipeline" THEN "ended" ELSE who

\* a new frame of run_pipeline: start_time = datetime.now(); extracted_data = [];
\* the other locals are not bound yet
RunPipeline ==
    /\ pc = "idle"
    /\ caller # "ended"
    /\ run_by' = caller
    /\ caller' = caller
    /\ runs < MaxRuns
    /\ runs' = runs + 1
    /\ start_time' = clock
    /\ clock' = clock + 1
    /\ extracted_data' = <<>>
    /\ exc' = ""
    /\ outcome' = "none"
    /\ calls' = <<>>
    /\ completed' = {}
    /\ yielded' = <<>>
    /\ len_at_start' = LogLen(metrics_file)
    /\ combined_data' = NoFrame
    /\ cleaned_data' = NoFrame
    /\ transformed_data' = NoFrame
    /\ pc' = "extract_csv"
    /\ UNCHANGED <<metrics_file, targets, recorded, lost, transVars>>

\* one guarded extraction: the DataFrame is appended, or the exception is
\* logged as a warning and dropped
Extract(source, tables, next) ==
    /\ pc = source
    /\ calls' = Append(calls, source)
    /\ \/ \E df \in tables :
            /\ extracted_data' = Append(extracted_data, df)
            /\ yielded' = Append(yielded, [source |-> source, df |-> df])
            /\ completed' = completed \cup {source}
       \/ UNCHANGED <<extracted_data, yielded, completed>>
    /\ pc' = next
    /\ UNCHANGED <<start_time, combined_data, cleaned_data, transformed_data, exc,
                   outcome, metrics_file, targets, clock, runs, len_at_start,
                   recorded, lost, transVars, callVars>>

ExtractCsv == Extract("extract_csv", CsvTables, "extract_api")

ExtractApi == Extract("extract_api", ApiTables, "combine")

\* if not extracted_data: raise Exception(...); combined_data = pd.concat(...)
Combine ==
    /\ pc = "combine"
    /\ IF HasData(extracted_data)
       THEN /\ combined_data' = concat(extracted_data)
            /\ pc' = AfterStage(FALSE, "clean_data")
            /\ exc' = exc
       ELSE /\ exc' = NoDataError
            /\ pc' = AfterStage(TRUE, "clean_data")
            /\ combined_data' = combined_data
    /\ UNCHANGED <<start_time, extracted_data, cleaned_data, transformed_data,
                   outcome, metrics_file, targets, clock, runs, calls, completed,
                   len_at_start, yielded, recorded, lost, transVars, callVars>>

\* cleaned_data = self.transformer.clean_data(combined_data)
CleanData ==
    /\ pc = "clean_data"
    /\ calls' = Append(calls, "clean_data")
    /\ \/ /\ cleaned_data' = clean_data(combined_data)
          /\ completed' = completed \cup {"clean_data"}
          /\ pc' = AfterStage(FALSE, "transform_data")
          /\ exc' = exc
       \/ /\ exc' = ErrorText("clean_data")
          /\ pc' = AfterStage(TRUE, "transform_data")
          /\ UNCHANGED <<cleaned_data, completed>>
    /\ UNCHANGED <<start_time, extracted_data, combined_data, transformed_data,
                   outcome, metrics_file, targets, clock, runs, len_at_start,
                   yielded, recorded, lost, transVars, callVars>>

\* transformed_data = self.transformer.transform_data(cleaned_data): the
\* argument is changed in place and returned, so both names hold the result
TransformData ==
    /\ pc = "transform_data"
    /\ calls' = Append(calls, "transform_data")
    /\ clock' = clock + 1
    /\ \/ /\ transformed_data' = transform_data(cleaned_data, clock)
          /\ cleaned_data' = transformed_data'
          /\ completed' = completed \cup {"transform_data"}
          /\ pc' = AfterStage(FALSE, "load_to_database")
          /\ exc' = exc
       \/ /\ exc' = ErrorText("transform_data")
          /\ pc' = AfterStage(TRUE, "load_to_database")
          /\ UNCHANGED <<cleaned_data, transformed_data, completed>>
    /\ UNCHANGED <<start_time, extracted_data, combined_data, outcome,
                   metrics_file, targets, runs, len_at_start, yielded, recorded,
                   lost, transVars, callVars>>

\* one sink write: the target takes the table, or the loader raises
Load(sink, target, next) ==
    /\ pc = sink
    /\ calls' = Append(calls, sink)
    /\ \/ /\ targets' = [targets EXCEPT ![target] = transformed_data]
          /\ completed' = completed \cup {sink}
          /\ pc' = AfterStage(FALSE, next)
          /\ exc' = exc
       \/ /\ exc' = ErrorText(sink)
          /\ pc' = AfterStage(TRUE, next)
          /\ UNCHANGED <<targets, completed>>
    /\ UNCHANGED <<start_time, extracted_data, combined_data, cleaned_data,
                   transformed_data, outcome, metrics_file, clock, runs,
                   len_at_start, yielded, recorded, lost, transVars, callVars>>

LoadToDatabase == Load("load_to_database", "database", "load_to_csv")

LoadToCsv == Load("load_to_csv", "csv", "load_to_json")

LoadToJson == Load("load_to_json", "json", "log_success")

\* a failure record that reports the rows of the table in hand and no error text
FailedMetrics_rows(start, now, e) ==
    [execution_time |-> 0, rows_processed |-> Len(combined_data.rows) + 1,
     start_time |-> start, end_time |-> now, status |-> "failed", error |-> ""]

\* the metrics dict of the except clause
FailedMetrics(start, now, e) ==
    [execution_time |-> 0, rows_processed |-> 0, start_time |-> start,
     end_time |-> now, status |-> "failed", error |-> e]

\* the metrics dict of the success path
SuccessMetrics(start, now, df) ==
    [execution_time |-> now - start, rows_processed |-> Len(df.rows),
     start_time |-> start, end_time |-> now, status |-> "success"]

\* end_time = datetime.now(); metrics = {...}; self.log_metrics(metrics)
LogSuccess ==
    /\ pc = "log_success"
    /\ LET metrics == SuccessMetrics(start_time, clock, transformed_data)
       IN  /\ metrics_file' = log_metrics(metrics_file, metrics)
           /\ recorded' = Append(recorded, metrics)
    /\ clock' = clock + 1
    /\ outcome' = "returned"
    /\ pc' = "idle"
    /\ UNCHANGED <<start_time, extracted_data, combined_data, cleaned_data,
                   transformed_data, exc, targets, runs, calls, completed,
                   len_at_start, yielded, lost, transVars, callVars>>

\* except Exception as e: metrics = {...}; self.log_metrics(metrics); raise
Except ==
    /\ pc = "except"
    /\ LET metrics == FailedMetrics(start_time, clock, exc)
       IN  /\ metrics_file' = log_metrics(metrics_file, metrics)
           /\ recorded' = Append(recorded, metrics)
    /\ clock' = clock + 1
    /\ outcome' = "raised"
    /\ pc' = "idle"
    /\ caller' = AfterRaise(caller)
    /\ UNCHANGED <<start_time, extracted_data, combined_data, cleaned_data,
                   transformed_data, exc, targets, runs, calls, completed,
                   len_at_start, yielded, lost, run_by, transVars>>

\* between invocations the file is truncated or garbled, so that the next
\* json.load raises JSONDecodeError
CorruptMetricsFile ==
    /\ pc = "idle"
    /\ metrics_file.kind # "corrupt"
    /\ metrics_file' = Corrupt
    /\ lost' = Len(recorded)
    /\ UNCHANGED <<pc, start_time, extracted_data, combined_data, cleaned_data,
                   transformed_data, exc, outcome, targets, clock, runs, calls,
                   completed, len_at_start, yielded, recorded, transVars, callVars>>

\* between invocations the file is removed, so that Path.exists() is False
RemoveMetricsFile ==
    /\ pc = "idle"
    /\ metrics_file.kind # "missing"
    /\ metrics_file' = Missing
    /\ lost' = Len(recorded)
    /\ UNCHANGED <<pc, start_time, extracted_data, combined_data, cleaned_data,
                   transformed_data, exc, outcome, targets, clock, runs, calls,
                   completed, len_at_start, yielded, recorded, transVars, callVars>>

\* schedule_pipeline: returns at once when scheduling is disabled, otherwise
\* registers run_pipeline as the job and enters the while loop, where
\* run_pending() calls the job each time it is due
SchedulePipeline ==
    /\ pc = "idle"
    /\ caller = "direct"
    /\ \E enabled \in BOOLEAN :
          caller' = IF enabled THEN "schedule_pipeline" ELSE caller
    /\ UNCHANGED <<pc, start_time, extracted_data, combined_data, cleaned_data,
                   transformed_data, exc, outcome, metrics_file, targets, clock,
                   runs, calls, completed, len_at_start, yielded, recorded, lost,
                   run_by, transVars>>

Init ==
    /\ PipeInit
    /\ heap = <<>>
    /\ call = NoCall
    /\ passes = <<>>

Next ==
    \/ RunPipeline
    \/ ExtractCsv
    \/ ExtractApi
    \/ Combine
    \/ CleanData
    \/ TransformData
    \/ LoadToDatabase
    \/ LoadToCsv
    \/ LoadToJson
    \/ LogSuccess
    \/ Except
    \/ CorruptMetricsFile
    \/ RemoveMetricsFile
    \/ SchedulePipeline

Spec == Init /\ [][Next]_vars

-----------------------------------------------------------------------------
(* Properties of run_pipeline and log_metrics (Spec) *)

Last(q) == q[Len(q)]

Stages == Range(StageOrder) \ Sources

\* the invocation has gone past "if not extracted_data"
Collected == runs > 0 /\ pc \notin {"extract_csv", "extract_api", "combine"}

\* the invocation went on to the transform stage
Proceeded == Collected /\ (pc = "clean_data" \/ Len(calls) > Cardinality(Sources))

\* the invocation is over
Over == runs > 0 /\ pc = "idle"

\* C1: every invocation of run_pipeline appends exactly one record: while it
\* runs the log is untouched, and the step that ends it (success or failure
\* path) is one recorder call that leaves the log holding exactly one more
\* record than it held when the invocation started.
C1_OneRecordPerRun ==
    [][ (pc # "idle") =>
            IF pc' = "idle"
            THEN /\ LogLen(metrics_file') = len_at_start + 1
                 /\ Len(recorded') = Len(recorded) + 1
                 /\ outcome' \in {"returned", "raised"}
            ELSE /\ metrics_file' = metrics_file
                 /\ recorded' = recorded ]_vars

\* a second invocation has failed after a first one succeeded, and the log
\* holds the record of each
C1_Witness ==
    /\ Over
    /\ outcome = "raised"
    /\ metrics_file.kind = "valid"
    /\ Len(metrics_file.entries) = 2
    /\ metrics_file.entries[1].status = "success"
    /\ metrics_file.entries[2].status = "failed"
    /\ len_at_start = 1

\* C2: the calls of one invocation follow the fixed order; a stage or sink
\* that raised is the last call made and control is in the except clause (or
\* the run is over, raised); nothing is called when no source delivered; and
\* a run is recorded as success only if every stage and every sink returned.
C2_StrictOrder ==
    /\ calls = SubSeq(StageOrder, 1, Len(calls))
    /\ \A i \in 1..Len(calls) :
          (calls[i] \in Stages /\ calls[i] \notin completed) =>
              /\ i = Len(calls)
              /\ pc \in {"except", "idle"}
              /\ exc = ErrorText(calls[i])
              /\ (pc = "idle" => outcome = "raised")
    /\ (Len(calls) > Cardinality(Sources)) => (completed \cap Sources # {})
    /\ Over =>
          /\ (outcome = "returned") <=> (Last(recorded).status = "success")
          /\ (outcome = "returned") =>
                /\ calls = StageOrder
                /\ Stages \subseteq completed
                /\ completed \cap Sources # {}

\* the CSV write raised after the database write returned: the JSON sink was
\* never called and the run is over, raised
C2_Witness ==
    /\ Over
    /\ outcome = "raised"
    /\ Last(calls) = "load_to_csv"
    /\ "load_to_database" \in completed
    /\ "load_to_csv" \notin completed
    /\ targets["database"] = transformed_data
    /\ Last(recorded).status = "failed"

\* the rows the successful sources returned, in the order they were called
YieldedRows ==
    LET G[i \in 0..Len(yielded)] ==
            IF i = 0 THEN <<>> ELSE G[i-1] \o yielded[i].df.rows
    IN  G[Len(yielded)]

\* C3: each source is called once, CSV then API, whatever the other did; the
\* run goes on past collection exactly when a source delivered, and then the
\* combined table holds the delivered rows in source order and no exception
\* is in flight; when no source delivered the run fails with the no-data error.
C3_PartialSourceTolerance ==
    Collected =>
        /\ SubSeq(calls, 1, Cardinality(Sources)) = <<"extract_csv", "extract_api">>
        /\ \A src \in Sources : Cardinality({i \in 1..Len(calls) : calls[i] = src}) = 1
        /\ [i \in 1..Len(yielded) |-> yielded[i].source] \in
              {<<>>, <<"extract_csv">>, <<"extract_api">>, <<"extract_csv", "extract_api">>}
        /\ {yielded[i].source : i \in 1..Len(yielded)} = completed \cap Sources
        /\ Proceeded <=> (Len(yielded) > 0)
        /\ Proceeded =>
              /\ Len(combined_data.rows) = Len(YieldedRows)
              /\ \A i \in 1..Len(YieldedRows) :
                    \A c \in DOMAIN YieldedRows[i] :
                        combined_data.rows[i][c] = YieldedRows[i][c]
              /\ (pc = "clean_data" => exc = "")
              /\ exc # NoDataError
        /\ ~Proceeded =>
              /\ exc = NoDataError
              /\ pc \in {"except", "idle"}
              /\ (pc = "idle" => outcome = "raised")

\* the CSV extraction raised, the API extraction delivered, and the run is
\* about to clean the API rows
C3_Witness ==
    /\ pc = "clean_data"
    /\ "extract_csv" \notin completed
    /\ Len(yielded) = 1
    /\ yielded[1].source = "extract_api"
    /\ combined_data.rows = yielded[1].df.rows
    /\ exc = ""

\* the text of the failure that sends an invocation to the except clause
FailureText ==
    IF Len(calls) > Cardinality(Sources) THEN ErrorText(Last(calls)) ELSE NoDataError

\* C4: a step that raises goes to the except clause, and the except clause
\* appends a record with status "failed", rows_processed 0 and the text of
\* the failure that aborted the run, then raises to the caller.
C4_FailedRunRecorded ==
    [][ /\ (exc' # exc /\ exc' # "") => pc' = "except"
        /\ (pc = "except") =>
              /\ exc = FailureText
              /\ metrics_file'.kind = "valid"
              /\ Last(metrics_file'.entries) = Last(recorded')
              /\ Last(recorded').status = "failed"
              /\ Last(recorded').rows_processed = 0
              /\ Last(recorded').error = exc
              /\ Last(recorded').start_time = start_time
              /\ outcome' = "raised" ]_vars

\* the last sink raised after everything else returned, and the log ends with
\* the failed record carrying that sink's error text
C4_Witness ==
    /\ Over
    /\ outcome = "raised"
    /\ Last(calls) = "load_to_json"
    /\ Len(transformed_data.rows) > 0
    /\ metrics_file.kind = "valid"
    /\ Last(metrics_file.entries).status = "failed"
    /\ Last(metrics_file.entries).rows_processed = 0
    /\ Last(metrics_file.entries).error = ErrorText("load_to_json")

\* C5 as stated: whatever the recorder's read met between calls, the array the
\* file holds is the whole sequence of recorded entries, in call order.
C5_AllEntriesKept ==
    (metrics_file.kind = "valid") => (metrics_file.entries = recorded)

\* C5 as amended: the array read from the file (empty when the file is missing
\* or corrupt) is the sequence of the entries recorded since the file was
\* last lost, in call order; with no loss it is all of them.
C5_EntriesSinceLoss ==
    /\ (metrics_file.kind = "valid") =>
          metrics_file.entries = SubSeq(recorded, lost + 1, Len(recorded))
    /\ (metrics_file.kind # "valid") => lost = Len(recorded)
    /\ (Over /\ lost < Len(recorded)) => metrics_file.kind = "valid"

\* the file was lost after a first recorder call and the next call has
\* rebuilt it from the empty array
C5_Witness ==
    /\ Over
    /\ lost = 1
    /\ Len(recorded) = 2
    /\ metrics_file.kind = "valid"
    /\ metrics_file.entries = <<recorded[2]>>

\* the last invocation was a job of the scheduling loop and it raised
ScheduledRunFailed == Over /\ run_by = "schedule_pipeline" /\ outcome = "raised"

\* C11: the except clause appends the failed record and re-raises the same
\* exception; once a job of the scheduling loop has raised, the loop is over
\* and no run is started any more.
C11_FailedScheduledRunEndsLoop ==
    [][ /\ (pc = "except") =>
              /\ recorded' = Append(recorded, FailedMetrics(start_time, clock, exc))
              /\ metrics_file'.kind = "valid"
              /\ Last(metrics_file'.entries) = Last(recorded')
              /\ exc' = exc
              /\ outcome' = "raised"
        /\ ScheduledRunFailed =>
              /\ runs' = runs
              /\ pc' = "idle"
              /\ caller = "ended"
              /\ caller' = "ended" ]_vars

\* a job of the scheduling loop has raised while another run was still
\* allowed: the failed record is the last of the log and the loop is over
C11_Witness ==
    /\ ScheduledRunFailed
    /\ runs < MaxRuns
    /\ caller = "ended"
    /\ exc # ""
    /\ metrics_file.kind = "valid"
    /\ Last(metrics_file.entries).status = "failed"
    /\ Last(metrics_file.entries).error = exc

-----------------------------------------------------------------------------
(* Properties of the transform stage (SpecT) *)

CallArg == call.before
CallResult == heap[call.ret]

Cleaned == call.op = "clean_data"
Transformed == call.op = "transform_data"

\* the category the left-inclusive, right-exclusive bins give a price
LeftClosedCategory(cell) ==
    IF cell.na \/ cell.v < Fix(0) THEN NoCat
    ELSE IF cell.v < Fix(50) THEN Cat("Low")
    ELSE IF cell.v < Fix(200) THEN Cat("Medium")
    ELSE IF cell.v < Fix(500) THEN Cat("High")
    ELSE Cat("Premium")

\* C6: when a numeric price column is present, transform_data gives every row
\* the price_category of the left-inclusive, right-exclusive bins: [0,50) Low,
\* [50,200) Medium, [200,500) High, [500,inf) Premium, missing for a negative
\* price; so 0 gives Low, 50 gives Medium and 500 gives Premium.
C6_LeftClosedBins ==
    (Transformed /\ "price" \in Range(CallArg.columns)) =>
        \A i \in 1..Len(CallResult.rows) :
            CallResult.rows[i]["price_category"] =
                LeftClosedCategory(CallArg.rows[i]["price"])

HasPresent(df, c) == \E i \in 1..Len(df.rows) : ~df.rows[i][c].na

\* C7: after clean_data no text column holds a missing marker, no numeric
\* column that had a non-missing value on input holds one, and a numeric
\* column that was missing throughout holds either none or as many as on input.
C7_NoMissingAfterClean ==
    Cleaned =>
        /\ \A c \in Range(object_columns(CallArg)) : isna_sum(CallResult, c) = 0
        /\ \A c \in Range(numeric_columns(CallArg)) :
              IF HasPresent(CallArg, c)
              THEN isna_sum(CallResult, c) = 0
              ELSE isna_sum(CallResult, c) \in {0, isna_sum(CallArg, c)}

\* clean_data was given missing numbers in a column that also has numbers and
\* a missing text, and returned rows holding the median and "Unknown"
C7_Witness ==
    /\ Cleaned
    /\ \E c \in Range(numeric_columns(CallArg)) :
          /\ HasPresent(CallArg, c)
          /\ isna_sum(CallArg, c) > 0
          /\ \E i \in 1..Len(CallResult.rows) :
                /\ CallResult.rows[i][c] = median(Column(drop_duplicates(CallArg), c))
                /\ CallResult.rows[i] \notin Range(CallArg.rows)
    /\ isna_sum(CallArg, "name") > 0
    /\ \E i \in 1..Len(CallResult.rows) :
          CallResult.rows[i]["name"] = Str(<<"U", "n", "k", "n", "o", "w", "n">>)

\* C8: the table clean_data returns contains no two equal rows, and it is
\* shorter than the input whenever the input contained a repeated row.
C8_NoEqualRowsAfterClean ==
    Cleaned =>
        /\ duplicated_sum(CallResult) = 0
        /\ (duplicated_sum(CallArg) > 0 => Len(CallResult.rows) < Len(CallArg.rows))

\* the rows of df that lie within the bounds of the first n recorded passes
WithinPasses(df, n) ==
    [df EXCEPT !.rows =
        RowsAt(df.rows, {i \in 1..Len(df.rows) :
            \A j \in 1..n : InBounds(df.rows[i][passes[j].col], passes[j])})]

\* C9: the outlier loop visits the numeric columns in table column order; the
\* bounds of each column are those of its values in the imputed table reduced
\* by the bounds of the columns visited before it; the rows returned are
\* exactly the rows within the bounds of every pass.
C9_SequentialBounds ==
    Cleaned =>
        /\ [i \in 1..Len(passes) |-> passes[i].col] = numeric_columns(CallArg)
        /\ \A i \in 1..Len(passes) :
              LET b == Bounds(Column(WithinPasses(Imputed(CallArg), i - 1), passes[i].col))
              IN  /\ passes[i].lower_bound = b.lower_bound
                  /\ passes[i].upper_bound = b.upper_bound
        /\ CallResult = WithinPasses(Imputed(CallArg), Len(passes))

\* the same table with its columns in the opposite order
Reversed(df) ==
    [df EXCEPT !.columns = [i \in 1..Len(df.columns) |-> df.columns[Len(df.columns) + 1 - i]]]

\* clean_data returned a table whose second pass used bounds that differ from
\* the bounds over the unreduced table, and visiting the numeric columns in
\* the opposite order leaves a different number of rows
C9_Witness ==
    /\ Cleaned
    /\ Len(passes) = 2
    /\ LET b == Bounds(Column(Imputed(CallArg), passes[2].col))
       IN  passes[2].upper_bound # b.upper_bound
    /\ Len(clean_data(Reversed(CallArg)).rows) # Len(CallResult.rows)

\* C10: a stage leaves the caller's table as it was and returns another object.
C10_InputUntouched ==
    (call.op # "none") =>
        /\ heap[call.arg] = call.before
        /\ call.ret # call.arg

====
